---- MODULE Spec2Model ----
(***************************************************************************)
(* Price comparison and shopping-list optimisation of grocery_agent:       *)
(*   - the acquisition gate of GroceryWebScraper (web_scraper.py),          *)
(*   - the comparison engine and list optimiser of PriceComparisonService   *)
(*     (price_service.py).                                                  *)
(* Time is in seconds for the gate.  Prices are in cents.                   *)
(***************************************************************************)
EXTENDS Integers, Sequences, FiniteSets, TLC

(***************************************************************************)
(* Bounds of the model.                                                     *)
(***************************************************************************)
MaxCalls == 3
MaxTicks == 2
MaxRows == 3
MaxPrice == 2
MaxConfRows == 5
MaxLines == 2
MaxQty == 2
MaxBatchCalls == 2
MaxSaves == 2
MaxSaveList == 2
MaxCompareCalls == 1

(***************************************************************************)
(* Program constants.                                                       *)
(***************************************************************************)
max_concurrent_requests == 3
request_timeout == 30
RecencyWindow == 600
HardLimit == 10
SecondsPerDay == 86400
RecentHours == 2
IdealStores == 3
FreshnessWindow == 21600
CacheExpiry == 3600

None == "None"

\* An optional value: Absent, or Some(x) holding x.
Absent == <<>>
Some(x) == <<x>>
Get(o) == o[1]
NoStamp == -1

\* self.stores: the stores the scraper knows.
StoreNames == {"walmart", "target", "kroger"}
DefaultStores == <<"walmart", "target", "kroger">>

\* str.lower() on the product names the model uses.
Lower(name) ==
    CASE name = "Milk" -> "milk"
      [] name = "milk" -> "milk"
      [] name = "Eggs" -> "eggs"
      [] name = "eggs" -> "eggs"
      [] OTHER -> name

\* request_key = f"{product_name.lower()}_{store_name}", kept as a pair.
RequestKey(pair) == <<Lower(pair[1]), pair[2]>>

Keys == {"milk"} \X {"walmart", "target"}

\* The calls of scrape_product_prices the model issues: product_names, stores
\* (None = the default store list).
Requests ==
    { [product_names |-> <<"Milk", "milk">>, stores |-> <<"walmart", "aldi">>],
      [product_names |-> <<"milk">>, stores |-> <<"walmart", "target">>] }

\* The clock steps: past the fetch timeout, past the recency window, a day.
TickSteps == {31, 601, 86400}

Slots == {"a", "b"}

\* The items of the shopping lists the model optimises.
Items == {"milk", "eggs"}

VARIABLES
    active_requests,   \* self.active_requests
    request_cache,     \* self.request_cache: key -> stamp, NoStamp if absent
    now,               \* datetime.now()
    ticks,             \* clock steps taken
    calls,             \* invocations of scrape_product_prices started
    inv,               \* the running invocations (coroutines), per slot
    recent_skips,      \* log of "Skipping ... recently processed": elapsed since the stamp
    survive_log,       \* stamped keys that survived deduplication: elapsed since the stamp
    last_survived,     \* key -> start of the last call whose surviving batch had it
    resurvive_log,     \* keys surviving again: elapsed since last_survived
    price_data,        \* the fresh rows handed to _create_price_comparison
    comparison,        \* the PriceComparison built from price_data, Absent before
    shopping_list,     \* the argument of get_shopping_list_comparison
    item_rows,         \* item -> the fresh rows the store holds for it
    optimization,      \* the outcome of get_shopping_list_comparison, Absent before
    deal_names,        \* the product_names argument of get_best_deals
    min_savings,       \* the min_savings argument of get_best_deals, in cents
    deals,             \* the list get_best_deals returns, Absent before
    price_table,       \* the rows of the price_data table, in insertion order
    save_log,          \* the calls of save_price_data made, with what each did
    site,              \* store -> whether its site lists what is searched for
    cp,                \* the running call of compare_prices
    compare_calls,     \* calls of compare_prices started
    returned           \* what the calls of compare_prices made have returned

gateVars == <<active_requests, request_cache, now, ticks, calls, inv,
              recent_skips, survive_log, last_survived, resurvive_log>>

cmpVars == <<price_data, comparison>>

optVars == <<shopping_list, item_rows, optimization>>

dealVars == <<deal_names, min_savings, deals>>

saveVars == <<price_table, save_log>>

flowVars == <<site, cp, compare_calls, returned>>

restVars == <<dealVars, saveVars, flowVars>>

vars == <<gateVars, cmpVars, optVars, restVars>>

(***************************************************************************)
(* _deduplicate_requests                                                    *)
(***************************************************************************)
\* timedelta.seconds: the seconds component, days dropped.
TimedeltaSeconds(d) == d % SecondsPerDay

\* The recency test with the comparison turned round.
RecentlyProcessedInverted(current_time, cache_time) ==
    TimedeltaSeconds(current_time - cache_time) > RecencyWindow

\* (current_time - cache_time).seconds < 600
RecentlyProcessed(current_time, cache_time) ==
    TimedeltaSeconds(current_time - cache_time) < RecencyWindow

RECURSIVE CrossFrom(_, _, _, _)
CrossFrom(product_names, stores, p, s) ==
    IF p > Len(product_names) THEN <<>>
    ELSE IF s > Len(stores) THEN CrossFrom(product_names, stores, p + 1, 1)
    ELSE <<<<product_names[p], stores[s]>>>> \o CrossFrom(product_names, stores, p, s + 1)

\* for product_name in product_names: for store_name in stores
CrossProduct(product_names, stores) == CrossFrom(product_names, stores, 1, 1)

\* The request limit never reached.
LimitReachedNever(unique_requests) == FALSE

\* len(unique_requests) >= 10: the loops are left.
LimitReached(unique_requests) == Len(unique_requests) >= HardLimit

RECURSIVE DedupFrom(_, _, _, _, _)
DedupFrom(pairs, n, cache, current_time, st) ==
    IF n > Len(pairs) \/ LimitReached(st.unique) THEN st
    ELSE LET pair == pairs[n]
             key == RequestKey(pair)
         IN  IF pair[2] \notin StoreNames
                THEN DedupFrom(pairs, n + 1, cache, current_time, st)
             ELSE IF key \in st.active
                THEN DedupFrom(pairs, n + 1, cache, current_time, st)
             ELSE IF cache[key] # NoStamp /\ RecentlyProcessed(current_time, cache[key])
                THEN DedupFrom(pairs, n + 1, cache, current_time,
                        [st EXCEPT !.skips = @ \cup {current_time - cache[key]}])
             ELSE DedupFrom(pairs, n + 1, cache, current_time,
                        [st EXCEPT !.active = @ \cup {key},
                                   !.unique = Append(@, pair),
                                   !.survived = @ \cup
                                       (IF cache[key] # NoStamp
                                           THEN {current_time - cache[key]}
                                           ELSE {})])

DeduplicateRequests(product_names, stores, active, cache, current_time) ==
    DedupFrom(CrossProduct(product_names, stores), 1, cache, current_time,
              [active |-> active, unique |-> <<>>, skips |-> {}, survived |-> {}])

(***************************************************************************)
(* scrape_product_prices / _process_batch as a coroutine per slot           *)
(***************************************************************************)
IdleInv == [pc |-> "idle", unique |-> <<>>, i |-> 0, j |-> 0, results |-> <<>>, t0 |-> 0]

Min(a, b) == IF a < b THEN a ELSE b

\* One chunk holding every surviving pair.
BatchSizeWhole(unique) == Len(unique)

\* batch_size = min(self.max_concurrent_requests, len(unique_requests))
BatchSize(unique) == Min(max_concurrent_requests, Len(unique))

\* batch = unique_requests[i:i + batch_size]
Batch(r) == SubSeq(r.unique, r.i + 1, Min(r.i + BatchSize(r.unique), Len(r.unique)))

CurPair(r) == Batch(r)[r.j]
CurKey(r) == RequestKey(CurPair(r))

SeqKeys(pairs) == {RequestKey(pairs[k]) : k \in 1..Len(pairs)}

\* The end of a batch leaving its keys in active_requests.
AdvanceKeepingKeys(r, active, t) ==
    IF r.j < Len(Batch(r))
      THEN [inv |-> [r EXCEPT !.j = r.j + 1, !.pc = "fetch", !.t0 = t], active |-> active]
      ELSE LET i2 == r.i + BatchSize(r.unique)
           IN  IF i2 < Len(r.unique)
                 THEN [inv |-> [r EXCEPT !.i = i2, !.j = 1, !.pc = "fetch", !.t0 = t],
                       active |-> active]
                 ELSE [inv |-> IdleInv, active |-> active]

\* The coroutine r has finished with pair j of its batch (after the sleep, or
\* after the except branch): the next pair of the batch is dispatched, or the
\* batch ends, its keys are discarded (lines 78-80) and the next chunk starts
\* or the call returns.
Advance(r, active, t) ==
    IF r.j < Len(Batch(r))
      THEN [inv |-> [r EXCEPT !.j = r.j + 1, !.pc = "fetch", !.t0 = t], active |-> active]
      ELSE LET act2 == active \ SeqKeys(Batch(r))
               i2 == r.i + BatchSize(r.unique)
           IN  IF i2 < Len(r.unique)
                 THEN [inv |-> [r EXCEPT !.i = i2, !.j = 1, !.pc = "fetch", !.t0 = t],
                       active |-> act2]
                 ELSE [inv |-> IdleInv, active |-> act2]

\* A new call runs in the first free slot.
FirstIdle == IF inv["a"].pc = "idle" THEN "a" ELSE IF inv["b"].pc = "idle" THEN "b" ELSE None

\* scrape_product_prices is called: deduplication runs, and the first fetch of
\* the first chunk is dispatched (the code up to the first await).
Start(s, req) ==
    /\ s = FirstIdle
    /\ calls < MaxCalls
    /\ LET stores == IF req.stores = None THEN DefaultStores ELSE req.stores
           d == DeduplicateRequests(req.product_names, stores, active_requests,
                                    request_cache, now)
           again == {k \in SeqKeys(d.unique) : last_survived[k] # NoStamp}
       IN  /\ active_requests' = d.active
           /\ recent_skips' = recent_skips \cup d.skips
           /\ survive_log' = survive_log \cup d.survived
           /\ resurvive_log' = resurvive_log \cup {now - last_survived[k] : k \in again}
           /\ last_survived' = [k \in DOMAIN last_survived |-> IF k \in SeqKeys(d.unique)
                                                 THEN now ELSE last_survived[k]]
           /\ inv' = [inv EXCEPT ![s] =
                        IF d.unique = <<>>
                          THEN IdleInv
                          ELSE [pc |-> "fetch", unique |-> d.unique, i |-> 0, j |-> 1,
                                results |-> <<>>, t0 |-> now]]
    /\ calls' = calls + 1
    /\ UNCHANGED <<request_cache, now, ticks>>
    /\ UNCHANGED <<cmpVars, optVars, restVars>>

\* A returning fetch that leaves the request cache as it was.
FetchReturnUnstamped(s, found) ==
    /\ inv[s].pc = "fetch"
    /\ inv' = [inv EXCEPT ![s] = [@ EXCEPT !.pc = "sleep", !.t0 = 0,
                                           !.results = IF found
                                                         THEN Append(@, CurPair(inv[s]))
                                                         ELSE @]]
    /\ UNCHANGED <<active_requests, request_cache, now, ticks, calls, recent_skips,
                   survive_log, last_survived, resurvive_log>>
    /\ UNCHANGED <<cmpVars, optVars, restVars>>

\* await scraper.scrape_product(product_name) returns price data or None:
\* the request is stamped, a result is kept, and the coroutine sleeps.
FetchReturn(s, found) ==
    /\ inv[s].pc = "fetch"
    /\ request_cache' = [request_cache EXCEPT ![CurKey(inv[s])] = now]
    /\ inv' = [inv EXCEPT ![s] = [@ EXCEPT !.pc = "sleep", !.t0 = 0,
                                           !.results = IF found
                                                         THEN Append(@, CurPair(inv[s]))
                                                         ELSE @]]
    /\ UNCHANGED <<active_requests, now, ticks, calls, recent_skips, survive_log,
                   last_survived, resurvive_log>>
    /\ UNCHANGED <<cmpVars, optVars, restVars>>

\* A raising fetch that ends the whole call.
FetchRaiseAborting(s) ==
    /\ inv[s].pc = "fetch"
    /\ inv' = [inv EXCEPT ![s] = IdleInv]
    /\ active_requests' = active_requests \ SeqKeys(inv[s].unique)
    /\ UNCHANGED <<request_cache, now, ticks, calls, recent_skips, survive_log,
                   last_survived, resurvive_log>>
    /\ UNCHANGED <<cmpVars, optVars, restVars>>

\* await scraper.scrape_product(product_name) raises: the key is discarded and
\* the loop continues with the next pair.
FetchRaise(s) ==
    /\ inv[s].pc = "fetch"
    /\ LET a == Advance(inv[s], active_requests \ {CurKey(inv[s])}, now)
       IN  /\ inv' = [inv EXCEPT ![s] = a.inv]
           /\ active_requests' = a.active
    /\ UNCHANGED <<request_cache, now, ticks, calls, recent_skips, survive_log,
                   last_survived, resurvive_log>>
    /\ UNCHANGED <<cmpVars, optVars, restVars>>

\* await asyncio.sleep(...) returns.
SleepDone(s) ==
    /\ inv[s].pc = "sleep"
    /\ LET a == Advance(inv[s], active_requests, now)
       IN  /\ inv' = [inv EXCEPT ![s] = a.inv]
           /\ active_requests' = a.active
    /\ UNCHANGED <<request_cache, now, ticks, calls, recent_skips, survive_log,
                   last_survived, resurvive_log>>
    /\ UNCHANGED <<cmpVars, optVars, restVars>>

\* The clock advances.
Tick(d) ==
    /\ ticks < MaxTicks
    /\ now' = now + d
    /\ ticks' = ticks + 1
    /\ UNCHANGED <<active_requests, request_cache, calls, inv, recent_skips,
                   survive_log, last_survived, resurvive_log>>
    /\ UNCHANGED <<cmpVars, optVars, restVars>>

GateInit ==
    /\ active_requests = {}
    /\ request_cache = [k \in Keys |-> NoStamp]
    /\ now = 0
    /\ ticks = 0
    /\ calls = 0
    /\ inv = [s \in Slots |-> IdleInv]
    /\ recent_skips = {}
    /\ survive_log = {}
    /\ last_survived = [k \in Keys |-> NoStamp]
    /\ resurvive_log = {}

CmpIdle ==
    /\ price_data = <<>>
    /\ comparison = Absent

OptIdle ==
    /\ shopping_list = <<>>
    /\ item_rows = [it \in Items |-> <<>>]
    /\ optimization = Absent

DealIdle ==
    /\ deal_names = <<>>
    /\ min_savings = 0
    /\ deals = Absent

SaveIdle ==
    /\ price_table = <<>>
    /\ save_log = <<>>

FlowIdle ==
    /\ site = [st \in {"walmart", "target"} |-> FALSE]
    /\ cp = [pc |-> "idle"]
    /\ compare_calls = 0
    /\ returned = <<>>

RestIdle == DealIdle /\ SaveIdle /\ FlowIdle

Init == GateInit /\ CmpIdle /\ OptIdle /\ RestIdle

Next ==
    \/ \E s \in Slots, req \in Requests : Start(s, req)
    \/ \E s \in Slots, found \in BOOLEAN : FetchReturn(s, found)
    \/ \E s \in Slots : FetchRaise(s)
    \/ \E s \in Slots : SleepDone(s)
    \/ \E d \in TickSteps : Tick(d)

Spec == Init /\ [][Next]_vars

(***************************************************************************)
(* One caller at a time asking for more pairs than the request limit: the   *)
(* default stores, several chunks, the cap of 10.                           *)
(***************************************************************************)
BatchProducts == <<"Milk", "eggs", "bread", "rice">>

BatchRequests == { [product_names |-> BatchProducts, stores |-> None] }

BatchKeys == {"milk", "eggs", "bread", "rice"} \X StoreNames

\* A call made when no call is running.
BatchStart(req) ==
    /\ \A s \in Slots : inv[s].pc = "idle"
    /\ calls < MaxBatchCalls
    /\ Start("a", req)

InitBatch ==
    /\ active_requests = {}
    /\ request_cache = [k \in BatchKeys |-> NoStamp]
    /\ now = 0
    /\ ticks = 0
    /\ calls = 0
    /\ inv = [s \in Slots |-> IdleInv]
    /\ recent_skips = {}
    /\ survive_log = {}
    /\ last_survived = [k \in BatchKeys |-> NoStamp]
    /\ resurvive_log = {}
    /\ CmpIdle
    /\ OptIdle
    /\ RestIdle

NextBatch ==
    \/ \E req \in BatchRequests : BatchStart(req)
    \/ FetchReturn("a", TRUE)
    \/ FetchRaise("a")
    \/ SleepDone("a")

SpecBatch == InitBatch /\ [][NextBatch]_vars

(***************************************************************************)
(* Properties of the acquisition gate                                       *)
(***************************************************************************)
Fetching(s) == inv[s].pc = "fetch"

\* C2: at no moment are two fetches for the same normalized key both
\* dispatched and not yet completed, over every interleaving of calls and
\* every mix of fetch successes and failures.
C2_NoTwoFetchesForOneKey ==
    \A s, t \in Slots :
        (s # t /\ Fetching(s) /\ Fetching(t)) => CurKey(inv[s]) # CurKey(inv[t])

\* C3: a pair is skipped on recency grounds only if it was processed within
\* the last 10 minutes: every logged recency skip has an elapsed time since
\* the stamp of at most 10 minutes, however old the stamp is.
C3_RecencySkipOnlyWithinWindow ==
    \A e \in recent_skips : e <= RecencyWindow

\* C9 as stated: when two invocations request the same pair and the second
\* starts within the recency window of the first, the pair is in the surviving
\* batch of at most one of them.
C9_AtMostOneDispatchInWindow ==
    \A g \in resurvive_log : g >= RecencyWindow

\* C9 as amended: a pair whose fetch completed without raising less than
\* 10 minutes before an invocation starts is dropped from that invocation's
\* surviving batch, so the invocation dispatches no fetch for it.
C9_StampedPairDropped ==
    \A e \in survive_log : e >= RecencyWindow

\* A second invocation asked for a pair less than 10 minutes after its fetch
\* completed, and dropped it.
C9_Witness ==
    /\ calls >= 2
    /\ \E e \in recent_skips : e < RecencyWindow

\* C10: a fetch that has not completed within the timeout budget is abandoned:
\* no fetch is still in progress more than request_timeout seconds after its
\* dispatch.
C10_NoFetchBeyondTimeout ==
    \A s \in Slots : Fetching(s) => now - inv[s].t0 <= request_timeout

\* The keys of the pairs a running call has still to finish with: those of its
\* current chunk and of its later chunks.
PendingKeys(r) ==
    IF r.pc = "idle" THEN {} ELSE SeqKeys(SubSeq(r.unique, r.i + 1, Len(r.unique)))

AllIdle == \A s \in Slots : inv[s].pc = "idle"

\* C11: every key a call marks in-flight is unmarked at the latest when the
\* call returns: a marked key is always a key of the current or a later chunk
\* of a running call, so the in-flight set is empty whenever no call runs.
C11_MarkedKeysBelongToRunningCalls ==
    /\ active_requests \subseteq UNION {PendingKeys(inv[s]) : s \in Slots}
    /\ AllIdle => active_requests = {}

\* A call whose fetches ended one by returning and one by raising has
\* returned, and nothing is marked.
C11_Witness ==
    /\ AllIdle
    /\ calls >= 1
    /\ active_requests = {}
    /\ \E k \in DOMAIN request_cache : request_cache[k] # NoStamp
    /\ \E k \in DOMAIN request_cache :
          last_survived[k] # NoStamp /\ request_cache[k] = NoStamp

\* The step of slot s is the end of its fetch by a return / by a raise.
Returned(s) == Fetching(s) /\ inv'[s] # inv[s] /\ inv'[s].pc = "sleep"
Raised(s) == Fetching(s) /\ inv'[s] # inv[s] /\ inv'[s].pc # "sleep"

Position(r) == r.i + r.j
Done(r) == IF r.pc = "sleep" THEN Position(r) ELSE Position(r) - 1
IsStamped(pair) == request_cache[RequestKey(pair)] # NoStamp
Successes(r) == SelectSeq(SubSeq(r.unique, 1, Done(r)), IsStamped)

\* C13: a raising fetch does not end the call: the next surviving pair, of
\* the same chunk or of the next one, is dispatched with the results kept,
\* the call returns only after its last pair, and its results are the
\* pairs whose fetch returned.
C13_RaiseDoesNotAbort ==
    /\ [](inv["a"].pc # "idle" => inv["a"].results = Successes(inv["a"]))
    /\ [][ LET r == inv["a"]
               r2 == inv'["a"]
           IN  /\ (r.pc # "idle" /\ r2.pc = "idle") => Position(r) = Len(r.unique)
               /\ (Raised("a") /\ Position(r) < Len(r.unique)) =>
                     /\ r2.pc = "fetch"
                     /\ r2.unique = r.unique
                     /\ Position(r2) = Position(r) + 1
                     /\ r2.results = r.results
         ]_vars

\* A fetch of a later chunk is in progress after an earlier fetch of the call
\* raised and another returned.
C13_Witness ==
    /\ calls = 1
    /\ Fetching("a")
    /\ inv["a"].i >= max_concurrent_requests
    /\ inv["a"].results # <<>>
    /\ \E q \in 1..Done(inv["a"]) : ~IsStamped(inv["a"].unique[q])

\* The pairs of the batch request that lie beyond the request limit.
BeyondCapKeys ==
    LET pairs == CrossProduct(BatchProducts, DefaultStores)
    IN  SeqKeys(SubSeq(pairs, HardLimit + 1, Len(pairs)))

\* C14: a call dispatches at most 10 pairs; only its surviving pairs are
\* marked, and the pairs beyond the cap are neither marked nor stamped by
\* the first call.
C14_AtMostTenPairsPerCall ==
    /\ \A s \in Slots : Len(inv[s].unique) <= HardLimit
    /\ active_requests \subseteq SeqKeys(inv["a"].unique)
    /\ calls = 1 => \A k \in BeyondCapKeys :
                        k \notin active_requests /\ request_cache[k] = NoStamp

\* The second call dispatches a pair the first call dropped at the cap.
C14_Witness ==
    /\ calls = 2
    /\ Fetching("a")
    /\ CurKey(inv["a"]) \in BeyondCapKeys
    /\ BeyondCapKeys # {}

(***************************************************************************)
(* Comparison engine: _create_price_comparison, _calculate_confidence       *)
(*                                                                          *)
(* A row of price_data is [store_name, price, age]: price in cents, age the *)
(* whole hours between scraped_at and now.  The rows are fresh (less than   *)
(* cache_duration_hours old) and available, as _get_cached_prices returns   *)
(* them.  Prices are whole dollars, so that round(x, 2) of a mean of up to  *)
(* seven of them never meets a tie.                                         *)
(***************************************************************************)
Prices == {100 * k : k \in 1..MaxPrice}
Ages == {1, 2}

Rows == [store_name : StoreNames, price : Prices, age : Ages]
ConfRows == [store_name : StoreNames, price : {100}, age : Ages]

SeqsUpTo(S, n) == UNION {[1..k -> S] : k \in 1..n}

\* The inputs of the comparison: few rows of any price, and more rows of one
\* price for the confidence score.
RowInputs == SeqsUpTo(Rows, MaxRows) \cup SeqsUpTo(ConfRows, MaxConfRows)

\* Rationals as <<numerator, denominator>>, denominator > 0.
RatAdd(a, b) == <<a[1] * b[2] + b[1] * a[2], a[2] * b[2]>>
RatHalf(a) == <<a[1], 2 * a[2]>>
RatGE(a, b) == a[1] * b[2] >= b[1] * a[2]
RatMin(a, b) == IF RatGE(a, b) THEN b ELSE a

\* round(x, n) of the rational num/den to the nearest unit.
Round(num, den) == (2 * num + den) \div (2 * den)

RECURSIVE SumSeq(_)
SumSeq(q) == IF q = <<>> THEN 0 ELSE Head(q) + SumSeq(Tail(q))

SeqMin(q) == CHOOSE x \in {q[k] : k \in 1..Len(q)} : \A k \in 1..Len(q) : x <= q[k]
SeqMax(q) == CHOOSE x \in {q[k] : k \in 1..Len(q)} : \A k \in 1..Len(q) : x >= q[k]

\* A dict as a function on its keys.
EmptyDict == [k \in {} |-> 0]
Put(d, key, value) == [k \in DOMAIN d \cup {key} |-> IF k = key THEN value ELSE d[k]]

\* A row replaces its store's entry with no condition.
TakesRowAlways(store_prices, row) == TRUE

\* store not in store_prices or price.price < store_prices[store]['price']
TakesRow(store_prices, row) ==
    \/ row.store_name \notin DOMAIN store_prices.by
    \/ row.price < store_prices.by[row.store_name].price

\* store_prices is a dict: the stores in insertion order, and their entries.
RECURSIVE StorePricesFrom(_, _, _)
StorePricesFrom(rows, n, store_prices) ==
    IF n > Len(rows) THEN store_prices
    ELSE LET row == rows[n]
             entry == [price |-> row.price, last_updated |-> row.age]
         IN  IF TakesRow(store_prices, row)
               THEN StorePricesFrom(rows, n + 1,
                        [order |-> IF row.store_name \notin DOMAIN store_prices.by
                                     THEN Append(store_prices.order, row.store_name)
                                     ELSE store_prices.order,
                         by |-> Put(store_prices.by, row.store_name, entry)])
               ELSE StorePricesFrom(rows, n + 1, store_prices)

StorePrices(rows) ==
    StorePricesFrom(rows, 1, [order |-> <<>>, by |-> EmptyDict])

\* for store, data in store_prices.items(): if data['price'] == cheapest_price: break
RECURSIVE FirstStoreAt(_, _, _)
FirstStoreAt(store_prices, n, cheapest_price) ==
    IF n > Len(store_prices.order) THEN None
    ELSE IF store_prices.by[store_prices.order[n]].price = cheapest_price
      THEN store_prices.order[n]
      ELSE FirstStoreAt(store_prices, n + 1, cheapest_price)

\* p.scraped_at > datetime.now() - timedelta(hours=2)
IsRecent(row) == row.age < RecentHours

RecentCount(rows) == Cardinality({k \in 1..Len(rows) : IsRecent(rows[k])})

\* min(store_count / 2, 1.0)
CoverageScoreOfTwo(store_count) == RatMin(<<store_count, 2>>, <<1, 1>>)

\* min(store_count / 3, 1.0)
CoverageScore(store_count) == RatMin(<<store_count, IdealStores>>, <<1, 1>>)

\* The thresholds taken strictly.
BucketStrict(confidence_score) ==
    IF ~RatGE(<<8, 10>>, confidence_score) THEN "high"
    ELSE IF ~RatGE(<<5, 10>>, confidence_score) THEN "medium"
    ELSE "low"

\* if confidence_score >= 0.8 ... elif confidence_score >= 0.5 ... else
Bucket(confidence_score) ==
    IF RatGE(confidence_score, <<8, 10>>) THEN "high"
    ELSE IF RatGE(confidence_score, <<5, 10>>) THEN "medium"
    ELSE "low"

CalculateConfidence(rows, store_count) ==
    LET recency_score == <<RecentCount(rows), Len(rows)>>
        coverage_score == CoverageScore(store_count)
        confidence_score == RatHalf(RatAdd(recency_score, coverage_score))
    IN  Bucket(confidence_score)

CreatePriceComparison(product_name, rows) ==
    IF rows = <<>> THEN Absent
    ELSE LET store_prices == StorePrices(rows)
             all_prices == [k \in 1..Len(rows) |-> rows[k].price]
             cheapest_price == SeqMin(all_prices)
             most_expensive == SeqMax(all_prices)
             average_price == <<SumSeq(all_prices), Len(all_prices)>>
             savings == most_expensive - cheapest_price
         IN  Some(
             [product_name |-> product_name,
              cheapest_price |-> cheapest_price,
              cheapest_store |-> FirstStoreAt(store_prices, 1, cheapest_price),
              average_price |-> Round(average_price[1], average_price[2]),
              price_range |-> <<cheapest_price, most_expensive>>,
              stores_compared |-> Len(store_prices.order),
              savings_opportunity |-> savings,
              price_by_store |-> store_prices,
              confidence |-> CalculateConfidence(rows, Len(store_prices.order)),
              last_updated |-> SeqMin([k \in 1..Len(rows) |-> rows[k].age])])

\* _create_price_comparison runs on the rows read for a product.
CreateComparison ==
    /\ price_data # <<>>
    /\ comparison = Absent
    /\ comparison' = CreatePriceComparison("milk", price_data)
    /\ UNCHANGED <<price_data, gateVars, optVars, restVars>>

InitCmp ==
    /\ GateInit
    /\ OptIdle
    /\ RestIdle
    /\ price_data \in RowInputs
    /\ comparison = Absent

NextCmp == CreateComparison

SpecCmp == InitCmp /\ [][NextCmp]_vars

(***************************************************************************)
(* Properties of the comparison engine                                      *)
(***************************************************************************)
\* The stores of a comparison and their representative prices, read from
\* price_by_store.
CmpStores(c) == DOMAIN c.price_by_store.by
RepPrice(c, st) == c.price_by_store.by[st].price
RepPrices(c) == {RepPrice(c, st) : st \in CmpStores(c)}
SetMin(S) == CHOOSE x \in S : \A y \in S : x <= y
SetMax(S) == CHOOSE x \in S : \A y \in S : x >= y
RepTotal(c) == SumSeq([k \in 1..Len(c.price_by_store.order) |->
                          RepPrice(c, c.price_by_store.order[k])])

\* C4: price_range is (min, max) over the representative prices recorded in
\* price_by_store, and savings_opportunity is price_range[1] - price_range[0].
C4_RangeOverRepresentatives ==
    comparison # Absent =>
        /\ Get(comparison).price_range = <<SetMin(RepPrices(Get(comparison))), SetMax(RepPrices(Get(comparison)))>>
        /\ Get(comparison).savings_opportunity = Get(comparison).price_range[2] - Get(comparison).price_range[1]

\* C5: average_price is the mean of the representative prices, one per
\* distinct store, whatever the number of rows of each store.
C5_AverageOverRepresentatives ==
    comparison # Absent =>
        Get(comparison).average_price = Round(RepTotal(Get(comparison)), Cardinality(CmpStores(Get(comparison))))

\* C6: cheapest_price is the minimum of the representative prices in
\* price_by_store, and cheapest_store is defined and is a store whose
\* representative price is cheapest_price.
C6_CheapestIsMinRepresentative ==
    comparison # Absent =>
        /\ Get(comparison).cheapest_price = SetMin(RepPrices(Get(comparison)))
        /\ Get(comparison).cheapest_store \in CmpStores(Get(comparison))
        /\ RepPrice(Get(comparison), Get(comparison).cheapest_store) = Get(comparison).cheapest_price

\* A comparison over two stores, one of them with a dearer row before its
\* cheapest one.
C6_Witness ==
    /\ comparison # Absent
    /\ Get(comparison).stores_compared >= 2
    /\ \E j, k \in 1..Len(price_data) :
          /\ j < k
          /\ price_data[j].store_name = price_data[k].store_name
          /\ price_data[j].price > price_data[k].price

\* The observations of a comparison: all of them, the recent ones, the stores.
Total == Len(price_data)
Recent == Cardinality({k \in 1..Len(price_data) : price_data[k].age < RecentHours})
StoreCount == Cardinality({price_data[k].store_name : k \in 1..Len(price_data)})

\* C7 as stated: confidence is high exactly when the recency score is at
\* least 0.6 and at least 3 stores contribute.
C7_HighIffRecentAndThreeStores ==
    comparison # Absent =>
        (Get(comparison).confidence = "high" <=> (5 * Recent >= 3 * Total /\ StoreCount >= 3))

\* C7 as amended: confidence is high exactly when at least 3 stores
\* contribute and the recency score is at least 0.6, or exactly 2 stores
\* contribute and the recency score is at least 14/15; never with one store.
C7_HighIffScoreReached ==
    comparison # Absent =>
        (Get(comparison).confidence = "high" <=>
            \/ (StoreCount >= 3 /\ 5 * Recent >= 3 * Total)
            \/ (StoreCount = 2 /\ 15 * Recent >= 14 * Total))

\* A comparison over exactly two stores labelled high.
C7_Witness ==
    /\ comparison # Absent
    /\ StoreCount = 2
    /\ Get(comparison).confidence = "high"

\* score = (recent/total + min(stores/3, 1)) / 2, times 30 * total.
Score30 == 15 * Recent + 5 * Total * (IF StoreCount < 3 THEN StoreCount ELSE 3)

\* C8: the label is the bucket of score = (recent/total + min(stores/3, 1)) / 2:
\* high from 0.8, medium from 0.5 to below 0.8, low below 0.5, the boundary
\* values falling in the higher bucket.
C8_LabelIsBucketOfScore ==
    comparison # Absent =>
        Get(comparison).confidence =
            IF Score30 >= 24 * Total THEN "high"
            ELSE IF Score30 >= 15 * Total THEN "medium"
            ELSE "low"

\* A comparison whose score is exactly 0.8, labelled high.
C8_Witness ==
    /\ comparison # Absent
    /\ Score30 = 24 * Total
    /\ Get(comparison).confidence = "high"

(***************************************************************************)
(* List optimiser: get_shopping_list_comparison                             *)
(***************************************************************************)
\* A line of the shopping list: an item, and a quantity that may be missing.
Lines == [item : Items, quantity : 1..MaxQty] \cup [item : Items]

\* The fresh rows the store may hold for an item once compare_prices has
\* refreshed it: none, one store, two stores with old rows, three stores, and
\* a store with two rows.
OptRowSeqs ==
    { <<>>,
      <<[store_name |-> "walmart", price |-> 100, age |-> 1]>>,
      <<[store_name |-> "walmart", price |-> 200, age |-> 2],
        [store_name |-> "target", price |-> 100, age |-> 2]>>,
      <<[store_name |-> "walmart", price |-> 300, age |-> 1],
        [store_name |-> "target", price |-> 200, age |-> 1],
        [store_name |-> "kroger", price |-> 200, age |-> 1]>>,
      <<[store_name |-> "target", price |-> 100, age |-> 1],
        [store_name |-> "target", price |-> 300, age |-> 1],
        [store_name |-> "kroger", price |-> 200, age |-> 2]>> }

\* compare_prices over the rows read for each product: a product with no row
\* is left out of the mapping.
ComparePrices(product_names, rows_by_item) ==
    LET found == {product_names[k] : k \in 1..Len(product_names)}
    IN  [name \in {n \in found : rows_by_item[n] # <<>>} |->
            Get(CreatePriceComparison(name, rows_by_item[name]))]

\* A missing quantity taken as 2.
QuantityDefaultTwo(line) == IF "quantity" \in DOMAIN line THEN line.quantity ELSE 2

\* item.get('quantity', 1)
Quantity(line) == IF "quantity" \in DOMAIN line THEN line.quantity ELSE 1

\* {'high': 1.0, 'medium': 0.7, 'low': 0.4}[comparison.confidence], in tenths
ConfidenceValue(confidence) ==
    CASE confidence = "high" -> 10
      [] confidence = "medium" -> 7
      [] confidence = "low" -> 4

\* for store, price_data in comparison.price_by_store.items(): ...
RECURSIVE AddStores(_, _, _, _)
AddStores(store_totals, c, quantity, n) ==
    IF n > Len(c.price_by_store.order) THEN store_totals
    ELSE LET store == c.price_by_store.order[n]
             old == IF store \in DOMAIN store_totals.by
                      THEN store_totals.by[store]
                      ELSE [total |-> 0, items |-> 0, confidence_scores |-> <<>>]
             new == [total |-> old.total + c.price_by_store.by[store].price * quantity,
                     items |-> old.items + 1,
                     confidence_scores |-> Append(old.confidence_scores,
                                                  ConfidenceValue(c.confidence))]
         IN  AddStores([order |-> IF store \in DOMAIN store_totals.by
                                    THEN store_totals.order
                                    ELSE Append(store_totals.order, store),
                        by |-> Put(store_totals.by, store, new)],
                       c, quantity, n + 1)

\* for item in shopping_list: ...
RECURSIVE Accumulate(_, _, _, _)
Accumulate(list, comparisons, n, acc) ==
    IF n > Len(list) THEN acc
    ELSE LET product_name == list[n].item
             quantity == Quantity(list[n])
         IN  IF product_name \in DOMAIN comparisons
               THEN LET c == comparisons[product_name]
                    IN  Accumulate(list, comparisons, n + 1,
                            [store_totals |-> AddStores(acc.store_totals, c, quantity, 1),
                             items_found |-> acc.items_found + 1,
                             total_savings |-> acc.total_savings
                                               + c.savings_opportunity * quantity])
               ELSE Accumulate(list, comparisons, n + 1, acc)

\* float('inf')
Infinity == -1

\* best_total of a result with no best store: None
NoTotal == -2

\* The comparison of totals turned round.
LessThanInverted(total, best_total) == best_total = Infinity \/ total > best_total

\* data['total'] < best_total
LessThan(total, best_total) == best_total = Infinity \/ total < best_total

\* Every store taken as covering enough.
CoversEnoughAlways(items, items_found) == TRUE

\* data['items'] >= items_found * 0.7
CoversEnough(items, items_found) == 10 * items >= 7 * items_found

\* for store, data in store_totals.items(): if data['total'] < best_total and ...
RECURSIVE FindBest(_, _, _, _)
FindBest(store_totals, items_found, n, best) ==
    IF n > Len(store_totals.order) THEN best
    ELSE LET store == store_totals.order[n]
             data == store_totals.by[store]
         IN  IF LessThan(data.total, best.best_total) /\ CoversEnough(data.items, items_found)
               THEN FindBest(store_totals, items_found, n + 1,
                             [best_store |-> store, best_total |-> data.total])
               ELSE FindBest(store_totals, items_found, n + 1, best)

\* best_total reported whether or not there is a best store.
BestTotalAlways(best) == best.best_total

\* round(best_total, 2) if best_store else None
BestTotalOf(best) == IF best.best_store # None THEN best.best_total ELSE NoTotal

\* statistics.mean(confidence_scores) >= threshold, the scores and the
\* threshold in tenths.  The mean of the doubles is exact and then rounded to
\* a double: for up to eight scores it compares as the exact mean of the
\* tenths does, except that the mean of one 1.0 to every two 0.7 is
\* 0.7999999999999999, below the double 0.8.
MeanAtLeast(scores, threshold) ==
    LET count(v) == Cardinality({k \in 1..Len(scores) : scores[k] = v})
    IN  /\ SumSeq(scores) >= threshold * Len(scores)
        /\ ~(threshold = 8 /\ count(4) = 0 /\ count(10) > 0 /\ count(7) = 2 * count(10))

\* if avg_confidence >= 0.8 ... elif avg_confidence >= 0.6 ... else;
\* 'low' for a store with no score
StoreConfidence(confidence_scores) ==
    IF confidence_scores = <<>> THEN "low"
    ELSE IF MeanAtLeast(confidence_scores, 8) THEN "high"
    ELSE IF MeanAtLeast(confidence_scores, 6) THEN "medium"
    ELSE "low"

\* The outcome of get_shopping_list_comparison: the dict it returns, or the
\* exception it raises.  Totals are in cents, coverage in tenths of a percent.
ShoppingListComparison(list, rows_by_item) ==
    LET product_names == [k \in 1..Len(list) |-> list[k].item]
        comparisons == ComparePrices(product_names, rows_by_item)
        acc == Accumulate(list, comparisons, 1,
                   [store_totals |-> [order |-> <<>>, by |-> EmptyDict],
                    items_found |-> 0, total_savings |-> 0])
        best == FindBest(acc.store_totals, acc.items_found, 1,
                         [best_store |-> None, best_total |-> Infinity])
    IN  IF Len(list) = 0
          THEN [raised |-> "ZeroDivisionError"]
          ELSE [raised |-> None,
                best_store |-> best.best_store,
                best_total |-> BestTotalOf(best),
                store_comparisons |->
                    [store \in DOMAIN acc.store_totals.by |->
                        [total |-> acc.store_totals.by[store].total,
                         items_found |-> acc.store_totals.by[store].items,
                         confidence |-> StoreConfidence(
                                            acc.store_totals.by[store].confidence_scores)]],
                items_compared |-> acc.items_found,
                total_items |-> Len(list),
                potential_savings |-> acc.total_savings,
                coverage |-> Round(1000 * acc.items_found, Len(list))]

\* get_shopping_list_comparison runs on the list.
Optimize ==
    /\ optimization = Absent
    /\ optimization' = Some(ShoppingListComparison(shopping_list, item_rows))
    /\ UNCHANGED <<shopping_list, item_rows, gateVars, cmpVars, restVars>>

InitOpt ==
    /\ GateInit
    /\ CmpIdle
    /\ RestIdle
    /\ shopping_list \in {<<>>} \cup SeqsUpTo(Lines, MaxLines)
    /\ item_rows \in [Items -> OptRowSeqs]
    /\ optimization = Absent

NextOpt == Optimize

SpecOpt == InitOpt /\ [][NextOpt]_vars

(***************************************************************************)
(* Deal finder: get_best_deals                                              *)
(***************************************************************************)
DealItems == {"milk", "eggs", "bread", "rice"}

\* The fresh rows the store may hold for a product: none, and rows whose
\* prices lie 0.00, 0.40, 0.95, 1.20 and 3.00 apart.
DealRowSeqs ==
    { <<>>,
      <<[store_name |-> "walmart", price |-> 250, age |-> 1]>>,
      <<[store_name |-> "walmart", price |-> 100, age |-> 1],
        [store_name |-> "target", price |-> 140, age |-> 1]>>,
      <<[store_name |-> "walmart", price |-> 100, age |-> 2],
        [store_name |-> "target", price |-> 195, age |-> 2],
        [store_name |-> "kroger", price |-> 110, age |-> 2]>>,
      <<[store_name |-> "target", price |-> 220, age |-> 1],
        [store_name |-> "walmart", price |-> 100, age |-> 1]>>,
      <<[store_name |-> "kroger", price |-> 400, age |-> 2],
        [store_name |-> "kroger", price |-> 100, age |-> 1]>> }

\* The rows held for the four products: two of them fixed to the savings
\* 0.40 and 0.95, two free.
DealRows ==
    { [milk |-> <<[store_name |-> "walmart", price |-> 100, age |-> 1],
                  [store_name |-> "target", price |-> 140, age |-> 1]>>,
       eggs |-> e,
       bread |-> b,
       rice |-> <<[store_name |-> "walmart", price |-> 100, age |-> 2],
                  [store_name |-> "target", price |-> 195, age |-> 2],
                  [store_name |-> "kroger", price |-> 110, age |-> 2]>>]
      : e \in DealRowSeqs, b \in DealRowSeqs }

DealNames ==
    { <<>>, <<"eggs">>, <<"milk", "eggs", "bread", "rice">>,
      <<"bread", "milk", "eggs", "bread">>, <<"rice", "bread", "eggs">> }

MinSavings == {0, 100, 120}

\* The keys of the comparisons dict in insertion order: each product with a
\* comparison once, where product_names has it first.
RECURSIVE ComparisonOrder(_, _, _, _)
ComparisonOrder(product_names, comparisons, n, order) ==
    IF n > Len(product_names) THEN order
    ELSE LET name == product_names[n]
         IN  IF name \in DOMAIN comparisons
                  /\ \A k \in 1..Len(order) : order[k] # name
               THEN ComparisonOrder(product_names, comparisons, n + 1, Append(order, name))
               ELSE ComparisonOrder(product_names, comparisons, n + 1, order)

\* The savings test that leaves out a product saving exactly min_savings.
IsDealStrict(c, threshold) == c.savings_opportunity > threshold

\* comparison.savings_opportunity >= min_savings
IsDeal(c, threshold) == c.savings_opportunity >= threshold

\* list.sort(key=savings, reverse=True), a stable sort: a deal goes behind
\* the deals that save as much or more.
RECURSIVE SortBySavings(_, _)
SortBySavings(list, n) ==
    IF n = 0 THEN <<>>
    ELSE LET sorted == SortBySavings(list, n - 1)
             d == list[n]
             ahead == Cardinality({k \in 1..Len(sorted) : sorted[k].savings >= d.savings})
         IN  SubSeq(sorted, 1, ahead) \o <<d>> \o SubSeq(sorted, ahead + 1, Len(sorted))

\* get_best_deals
GetBestDeals(product_names, threshold, rows_by_item) ==
    LET comparisons == ComparePrices(product_names, rows_by_item)
        order == ComparisonOrder(product_names, comparisons, 1, <<>>)
        kept == SelectSeq(order, LAMBDA name : IsDeal(comparisons[name], threshold))
        found == [k \in 1..Len(kept) |->
                    [product_name |-> kept[k],
                     cheapest_store |-> comparisons[kept[k]].cheapest_store,
                     cheapest_price |-> comparisons[kept[k]].cheapest_price,
                     savings |-> comparisons[kept[k]].savings_opportunity,
                     confidence |-> comparisons[kept[k]].confidence]]
    IN  SortBySavings(found, Len(found))

\* get_best_deals runs on the product names.
FindDeals ==
    /\ deals = Absent
    /\ deals' = Some(GetBestDeals(deal_names, min_savings, item_rows))
    /\ UNCHANGED <<deal_names, min_savings, item_rows, shopping_list, optimization,
                   saveVars, flowVars, gateVars, cmpVars>>

InitDeals ==
    /\ GateInit
    /\ CmpIdle
    /\ SaveIdle
    /\ FlowIdle
    /\ shopping_list = <<>>
    /\ optimization = Absent
    /\ item_rows \in DealRows
    /\ deal_names \in DealNames
    /\ min_savings \in MinSavings
    /\ deals = Absent

NextDeals == FindDeals

SpecDeals == InitDeals /\ [][NextDeals]_vars

(***************************************************************************)
(* Properties of the deal finder                                            *)
(***************************************************************************)
DealList == Get(deals)
Asked == {deal_names[k] : k \in 1..Len(deal_names)}
RowPrices(name) == {item_rows[name][k].price : k \in 1..Len(item_rows[name])}
\* savings_opportunity of the product's comparison: highest less lowest price
RowSavings(name) == SetMax(RowPrices(name)) - SetMin(RowPrices(name))
Qualifying == {name \in Asked : item_rows[name] # <<>> /\ RowSavings(name) >= min_savings}

\* C18: get_best_deals returns one entry for each compared product whose
\* savings are not below min_savings and none for any other product, each
\* with the product's cheapest price, the store of that price, its savings
\* and its confidence, in non-increasing order of savings.
C18_DealsAreQualifyingProductsBySavings ==
    deals # Absent =>
        /\ {DealList[k].product_name : k \in 1..Len(DealList)} = Qualifying
        /\ Len(DealList) = Cardinality(Qualifying)
        /\ \A k \in 1..Len(DealList) :
              LET d == DealList[k]
                  c == Get(CreatePriceComparison(d.product_name, item_rows[d.product_name]))
              IN  /\ d.savings = RowSavings(d.product_name)
                  /\ d.cheapest_price = SetMin(RowPrices(d.product_name))
                  /\ d.confidence = c.confidence
                  /\ d.cheapest_store \in
                        {item_rows[d.product_name][j].store_name :
                            j \in {i \in 1..Len(item_rows[d.product_name]) :
                                      item_rows[d.product_name][i].price = d.cheapest_price}}
        /\ \A k \in 1..(Len(DealList) - 1) : DealList[k].savings >= DealList[k + 1].savings

\* Savings 0.40, 1.20, 3.00 and 0.95 with min_savings 1.00 give the 3.00
\* and the 1.20 deals in that order.
C18_Witness ==
    /\ deals # Absent
    /\ deal_names = <<"milk", "eggs", "bread", "rice">>
    /\ min_savings = 100
    /\ item_rows["eggs"] # <<>>
    /\ item_rows["bread"] # <<>>
    /\ RowSavings("eggs") = 120
    /\ RowSavings("bread") = 300
    /\ Len(DealList) = 2
    /\ DealList[1].savings = 300
    /\ DealList[2].savings = 120

(***************************************************************************)
(* Properties of the list optimiser                                         *)
(***************************************************************************)
\* C1: for an empty shopping list the optimiser returns, without raising,
\* best_store null, items_compared 0, total_items 0, coverage 0 and an empty
\* store_comparisons.
C1_EmptyListReturnsEmptyResult ==
    (optimization # Absent /\ shopping_list = <<>>) =>
        /\ Get(optimization).raised = None
        /\ Get(optimization).best_store = None
        /\ Get(optimization).items_compared = 0
        /\ Get(optimization).total_items = 0
        /\ Get(optimization).coverage = 0
        /\ DOMAIN Get(optimization).store_comparisons = {}

\* The list and the rows seen from outside the optimiser: the lines that
\* resolve to a comparison, and for a store the lines it has a row for, its
\* lowest price for a line, and its total over its lines.
OptResult == Get(optimization)
OptReturned == optimization # Absent /\ OptResult.raised = None
LineRows(n) == item_rows[shopping_list[n].item]
Resolved == {n \in 1..Len(shopping_list) : LineRows(n) # <<>>}
StoreLines(st) ==
    {n \in Resolved : \E k \in 1..Len(LineRows(n)) : LineRows(n)[k].store_name = st}
ListStores == {st \in StoreNames : StoreLines(st) # {}}
StoreLow(st, n) ==
    SetMin({LineRows(n)[k].price : k \in {j \in 1..Len(LineRows(n)) :
                                              LineRows(n)[j].store_name = st}})
LineQuantity(n) ==
    IF "quantity" \in DOMAIN shopping_list[n] THEN shopping_list[n].quantity ELSE 1
StoreTotal(st) ==
    SumSeq([n \in 1..Len(shopping_list) |->
               IF n \in StoreLines(st) THEN StoreLow(st, n) * LineQuantity(n) ELSE 0])
MeetsFloor(st) == 10 * Cardinality(StoreLines(st)) >= 7 * Cardinality(Resolved)

\* C15: the best store returned always has a row for at least 70% of the
\* lines that resolved to a comparison, whatever the totals of the stores
\* that cover less.
C15_BestStoreMeetsCoverageFloor ==
    (OptReturned /\ OptResult.best_store # None) =>
        /\ MeetsFloor(OptResult.best_store)
        /\ 10 * OptResult.store_comparisons[OptResult.best_store].items_found
              >= 7 * OptResult.items_compared

\* A store covering less than 70% has a total below the best total, and is
\* not the best store.
C15_Witness ==
    /\ OptReturned
    /\ OptResult.best_store # None
    /\ \E st \in ListStores :
          ~MeetsFloor(st) /\ StoreTotal(st) < OptResult.best_total

\* Every line has a row at every store of the list.
EveryStoreEverywhere ==
    /\ shopping_list # <<>>
    /\ ListStores # {}
    /\ \A st \in ListStores : StoreLines(st) = 1..Len(shopping_list)

\* C16: a defined best store comes with its own total as best_total, no
\* store meeting the coverage floor has a lower total, and when every line
\* has data at every store best_total is the lowest of the store totals.
C16_BestTotalIsLowestEligibleTotal ==
    OptReturned =>
        /\ OptResult.best_store # None =>
              /\ OptResult.best_total = StoreTotal(OptResult.best_store)
              /\ \A st \in ListStores :
                    MeetsFloor(st) => StoreTotal(st) >= OptResult.best_total
        /\ EveryStoreEverywhere =>
              /\ OptResult.best_store # None
              /\ OptResult.best_total = SetMin({StoreTotal(st) : st \in ListStores})

\* Two lines with data at every store, the stores' totals differing, and the
\* best store not the first store met.
C16_Witness ==
    /\ OptReturned
    /\ EveryStoreEverywhere
    /\ Len(shopping_list) = 2
    /\ \E st \in ListStores : StoreTotal(st) > OptResult.best_total
    /\ OptResult.best_store # LineRows(1)[1].store_name

\* C17: for a non-empty list in which no store meets the coverage floor the
\* optimiser returns without raising, with no best store and no best total,
\* and with the store comparisons, the counts and the coverage.
C17_NoEligibleStoreGivesNullBest ==
    (optimization # Absent /\ shopping_list # <<>>
        /\ \A st \in ListStores : ~MeetsFloor(st)) =>
        /\ OptResult.raised = None
        /\ OptResult.best_store = None
        /\ OptResult.best_total = NoTotal
        /\ DOMAIN OptResult.store_comparisons = ListStores
        /\ \A st \in ListStores :
              /\ OptResult.store_comparisons[st].total = StoreTotal(st)
              /\ OptResult.store_comparisons[st].items_found = Cardinality(StoreLines(st))
        /\ OptResult.items_compared = Cardinality(Resolved)
        /\ OptResult.total_items = Len(shopping_list)
        /\ OptResult.coverage = Round(1000 * Cardinality(Resolved), Len(shopping_list))

\* Both lines resolved, each store has a row for one of them only.
C17_Witness ==
    /\ optimization # Absent
    /\ Cardinality(Resolved) = 2
    /\ ListStores # {}
    /\ \A st \in ListStores : ~MeetsFloor(st)

\* No line resolved.
C17_WitnessNoData ==
    /\ optimization # Absent
    /\ shopping_list # <<>>
    /\ Resolved = {}

(***************************************************************************)
(* Price store: save_price_data                                             *)
(*                                                                          *)
(* An observation is a dict of price_results; its age is the time between   *)
(* its scraped_at and the call that writes it.  A row of the table has the  *)
(* columns the call writes.  Time is in seconds.                            *)
(***************************************************************************)
Observations ==
    { [product_name |-> "milk", store_name |-> "walmart", price |-> 100,
       unit |-> "gallon", availability |-> TRUE, source_url |-> "a", age |-> 0],
      [product_name |-> "milk", store_name |-> "walmart", price |-> 200,
       availability |-> FALSE, age |-> 5],
      [product_name |-> "milk", store_name |-> "walmart", price |-> 300,
       availability |-> TRUE, source_url |-> "b", age |-> 21600],
      [product_name |-> "Milk", store_name |-> "walmart", price |-> 100,
       availability |-> TRUE, source_url |-> "a", age |-> 0] }

PriceResults == {<<>>} \cup SeqsUpTo(Observations, MaxSaveList)

\* The clock steps between calls: inside the window, 2 seconds short of it,
\* the window.
SaveTickSteps == {601, 21598, 21600}

\* price_data.get('unit', 'each'), price_data.get('source_url')
UnitOf(obs) == IF "unit" \in DOMAIN obs THEN obs.unit ELSE "each"
SourceOf(obs) == IF "source_url" \in DOMAIN obs THEN obs.source_url ELSE None

\* A window test that no row passes.
InWindowNever(row, current_time) == FALSE

\* PriceData.scraped_at > datetime.now() - timedelta(hours=6)
InWindow(row, current_time) == row.scraped_at > current_time - FreshnessWindow

\* session.query(PriceData).filter(...).first(): the index of the first row
\* of the product and store inside the window, 0 if there is none.
FindExisting(table, obs, current_time) ==
    LET hits == {k \in 1..Len(table) :
                    /\ table[k].product_name = obs.product_name
                    /\ table[k].store_name = obs.store_name
                    /\ InWindow(table[k], current_time)}
    IN  IF hits = {} THEN 0 ELSE CHOOSE k \in hits : \A j \in hits : k <= j

\* PriceData(product_name=..., ..., scraped_at=price_data['scraped_at'])
NewRow(obs, current_time) ==
    [product_name |-> obs.product_name, store_name |-> obs.store_name,
     price |-> obs.price, unit |-> UnitOf(obs), availability |-> obs.availability,
     source_url |-> SourceOf(obs), scraped_at |-> current_time - obs.age]

\* The loop of save_price_data over price_results[n .. stop - 1].
RECURSIVE UpsertFrom(_, _, _, _, _)
UpsertFrom(price_results, n, stop, current_time, st) ==
    IF n >= stop THEN st
    ELSE LET obs == price_results[n]
             existing == FindExisting(st.table, obs, current_time)
         IN  UpsertFrom(price_results, n + 1, stop, current_time,
                IF existing # 0
                  THEN [table |-> [st.table EXCEPT ![existing] =
                                      [@ EXCEPT !.price = obs.price,
                                                !.availability = obs.availability,
                                                !.scraped_at = current_time - obs.age,
                                                !.source_url = SourceOf(obs)]],
                        inserted |-> st.inserted,
                        updated |-> st.updated + 1,
                        saved_count |-> st.saved_count + 1]
                  ELSE [table |-> Append(st.table, NewRow(obs, current_time)),
                        inserted |-> st.inserted + 1,
                        updated |-> st.updated,
                        saved_count |-> st.saved_count + 1])

\* _cleanup_old_cache: the stamps more than an hour (of timedelta.seconds) old
\* are deleted.
CleanupOldCache(cache, current_time) ==
    [k \in DOMAIN cache |->
        IF cache[k] # NoStamp /\ TimedeltaSeconds(current_time - cache[k]) > CacheExpiry
          THEN NoStamp ELSE cache[k]]

\* What save_price_data(price_results) does to the table and the request
\* cache, and what it returns.  failure = 0: the call commits; failure = n:
\* an exception is raised while observation n is handled, or by the commit
\* for n = len + 1; the session is rolled back, and the call returns
\* saved_count all the same.
SaveOutcome(price_results, failure, table, cache, current_time) ==
    LET stop == IF failure = 0 THEN Len(price_results) + 1 ELSE failure
        st == UpsertFrom(price_results, 1, stop, current_time,
                 [table |-> table, inserted |-> 0, updated |-> 0, saved_count |-> 0])
        committed == failure = 0
    IN  [table |-> IF committed THEN st.table ELSE table,
         cache |-> IF committed /\ price_results # <<>>
                     THEN CleanupOldCache(cache, current_time)
                     ELSE cache,
         entry |-> [at |-> current_time, list |-> price_results, committed |-> committed,
                    count |-> st.saved_count,
                    inserted |-> IF committed THEN st.inserted ELSE 0,
                    updated |-> IF committed THEN st.updated ELSE 0]]

\* save_price_data(price_results) is called.
Save(price_results, failure) ==
    /\ Len(save_log) < MaxSaves
    /\ failure \in 0..(Len(price_results) + 1)
    /\ price_results = <<>> => failure = 0
    /\ LET out == SaveOutcome(price_results, failure, price_table, request_cache, now)
       IN  /\ price_table' = out.table
           /\ request_cache' = out.cache
           /\ save_log' = Append(save_log, out.entry)
    /\ UNCHANGED <<active_requests, now, ticks, calls, inv, recent_skips, survive_log,
                   last_survived, resurvive_log>>
    /\ UNCHANGED <<cmpVars, optVars, dealVars, flowVars>>

InitSave == Init

NextSave ==
    \/ \E price_results \in PriceResults, failure \in 0..(MaxSaveList + 1) :
          Save(price_results, failure)
    \/ \E d \in SaveTickSteps : Tick(d)

SpecSave == InitSave /\ [][NextSave]_vars

(***************************************************************************)
(* Properties of the price store                                            *)
(***************************************************************************)
SaveKeys == {<<o.product_name, o.store_name>> : o \in Observations}
Occurrences(list, key) ==
    {k \in 1..Len(list) : <<list[k].product_name, list[k].store_name>> = key}
ObservationOf(list, key) == list[CHOOSE k \in Occurrences(list, key) : TRUE]
RowsOf(key) ==
    {k \in 1..Len(price_table) :
        <<price_table[k].product_name, price_table[k].store_name>> = key}

\* Two committed calls were made on the empty table, each with one
\* observation for the key.
WrittenTwice(key) ==
    /\ Len(save_log) = 2
    /\ \A k \in 1..2 : /\ save_log[k].committed
                       /\ Cardinality(Occurrences(save_log[k].list, key)) = 1

\* The row has the price, availability, timestamp and source of the
\* observation written by the call e.
Carries(row, e, key) ==
    LET o == ObservationOf(e.list, key)
    IN  /\ row.price = o.price
        /\ row.availability = o.availability
        /\ row.scraped_at = e.at - o.age
        /\ row.source_url = (IF "source_url" \in DOMAIN o THEN o.source_url ELSE None)

\* C19 as stated: when the second write of an observation for a product and
\* store comes less than 6 hours after the first write, the table has one
\* row for the product and store, with the values of the second write.
C19_OneRowWhenWritesWithinWindow ==
    \A key \in SaveKeys :
        (WrittenTwice(key) /\ save_log[2].at - save_log[1].at < FreshnessWindow) =>
            /\ Cardinality(RowsOf(key)) = 1
            /\ \A k \in RowsOf(key) : Carries(price_table[k], save_log[2], key)

\* The timestamp of the row the first write stored for the key.
FirstStamp(key) == save_log[1].at - ObservationOf(save_log[1].list, key).age

\* C19 as amended: when the second write comes less than 6 hours after the
\* timestamp (scraped_at) of the observation stored by the first, the table
\* has one row for the product and store, with the values of the second
\* write; otherwise the second write inserts a row, and the table has the
\* row of the first write and the row of the second.
C19_OneRowWhenRowInsideWindow ==
    \A key \in SaveKeys :
        WrittenTwice(key) =>
            IF save_log[2].at - FirstStamp(key) < FreshnessWindow
              THEN /\ Cardinality(RowsOf(key)) = 1
                   /\ \A k \in RowsOf(key) : Carries(price_table[k], save_log[2], key)
              ELSE /\ Cardinality(RowsOf(key)) = 2
                   /\ \E j, k \in RowsOf(key) :
                         /\ j < k
                         /\ Carries(price_table[j], save_log[1], key)
                         /\ Carries(price_table[k], save_log[2], key)

\* The second write came later than the first, inside the window of the
\* stored row, with another price, and the table has the one row.
C19_Witness ==
    \E key \in SaveKeys :
        /\ WrittenTwice(key)
        /\ save_log[2].at > save_log[1].at
        /\ save_log[2].at - FirstStamp(key) < FreshnessWindow
        /\ ObservationOf(save_log[1].list, key).price
              # ObservationOf(save_log[2].list, key).price
        /\ Cardinality(RowsOf(key)) = 1

\* C20: the count a call of save_price_data returns is the number of rows
\* the call inserted plus the number it updated in the table, whether the
\* call committed or failed and was rolled back.
C20_CountIsRowsInsertedPlusUpdated ==
    \A k \in 1..Len(save_log) :
        save_log[k].count = save_log[k].inserted + save_log[k].updated

(***************************************************************************)
(* Comparisons that cover a single store                                    *)
(***************************************************************************)
\* C29: a comparison that covers a single store reports no savings: whenever
\* stores_compared = 1, savings_opportunity = 0 and
\* price_range[0] = price_range[1] = cheapest_price.
C29_SingleStoreReportsNoSavings ==
    (comparison # Absent /\ Get(comparison).stores_compared = 1) =>
        /\ Get(comparison).savings_opportunity = 0
        /\ Get(comparison).price_range[1] = Get(comparison).cheapest_price
        /\ Get(comparison).price_range[2] = Get(comparison).cheapest_price

(***************************************************************************)
(* Per-store confidence and potential savings of the list optimiser         *)
(***************************************************************************)
\* The confidence weights, in tenths, of the comparisons of the lines a store
\* has a row for, and the label of their exact average with the thresholds
\* 0.8 and 0.5.
LineWeight(n) ==
    ConfidenceValue(Get(CreatePriceComparison(shopping_list[n].item, LineRows(n))).confidence)
StoreWeightSum(st) ==
    SumSeq([n \in 1..Len(shopping_list) |->
               IF n \in StoreLines(st) THEN LineWeight(n) ELSE 0])
LabelOfAverage(st) ==
    IF StoreWeightSum(st) >= 8 * Cardinality(StoreLines(st)) THEN "high"
    ELSE IF StoreWeightSum(st) >= 5 * Cardinality(StoreLines(st)) THEN "medium"
    ELSE "low"

\* C23: the confidence label of every store of store_comparisons is the
\* average of the weights (high 1.0, medium 0.7, low 0.4) of the comparisons
\* that contribute to the store, bucketed with >= 0.8 high, >= 0.5 medium,
\* else low.
C23_StoreLabelIsBucketedAverage ==
    OptReturned =>
        \A st \in DOMAIN OptResult.store_comparisons :
            OptResult.store_comparisons[st].confidence = LabelOfAverage(st)

\* The savings_opportunity of the comparison of a resolved line.
LineSavings(n) ==
    Get(CreatePriceComparison(shopping_list[n].item, LineRows(n))).savings_opportunity

\* C27: potential_savings is the sum, over the lines that resolved to a
\* comparison, of the comparison's savings_opportunity times the line's
\* quantity (1 when the line has none), whichever store is the best store.
C27_PotentialSavingsIsSumOverResolvedLines ==
    OptReturned =>
        OptResult.potential_savings =
            SumSeq([n \in 1..Len(shopping_list) |->
                       IF n \in Resolved THEN LineSavings(n) * LineQuantity(n) ELSE 0])

\* Two lines resolved with savings, one with quantity 2 and one without a
\* quantity.
C27_Witness ==
    /\ OptReturned
    /\ \E n, m \in Resolved :
          /\ "quantity" \in DOMAIN shopping_list[n]
          /\ shopping_list[n].quantity = 2
          /\ "quantity" \notin DOMAIN shopping_list[m]
          /\ LineSavings(n) > 0
          /\ LineSavings(m) > 0
    /\ OptResult.potential_savings > 0

(***************************************************************************)
(* Pacing and concurrency of one call of the acquisition gate               *)
(***************************************************************************)
\* The step dispatches the fetch of another pair of the call running in s.
DispatchesNext(s) ==
    /\ inv[s].pc # "idle"
    /\ inv'[s].pc = "fetch"
    /\ <<inv'[s].i, inv'[s].j>> # <<inv[s].i, inv[s].j>>

\* C24: within one call of the gate, a rate-limit delay comes between every
\* two consecutive fetch dispatches, whatever the outcome of the earlier
\* fetch: the fetch of the next pair is dispatched only by the end of a sleep.
C24_DelayBetweenDispatches ==
    [][\A s \in Slots : DispatchesNext(s) => inv[s].pc = "sleep"]_vars

\* The pair dispatched by the step is the one after the pair just finished:
\* the next of the chunk, or the first of the next chunk once the last pair
\* of the chunk has finished.
NextInOrder(s) ==
    IF inv'[s].i = inv[s].i
      THEN inv'[s].j = inv[s].j + 1
      ELSE /\ inv[s].j = Len(Batch(inv[s]))
           /\ inv'[s].i = inv[s].i + Len(Batch(inv[s]))
           /\ inv'[s].j = 1

\* C28: within one call of the gate at most 3 fetches are in progress at any
\* moment, and chunks are processed one after another: a chunk has at most
\* max_concurrent_requests pairs, the call has one fetch in progress at a
\* time, and the first fetch of a chunk is dispatched by the step in which
\* the last pair of the chunk before it finishes.
C28_ChunksOfThreeInSequence ==
    /\ [](\A s \in Slots :
             inv[s].pc # "idle" =>
                 /\ Len(Batch(inv[s])) \in 1..max_concurrent_requests
                 /\ inv[s].j \in 1..Len(Batch(inv[s])))
    /\ [][\A s \in Slots : DispatchesNext(s) => NextInOrder(s)]_vars

\* A fetch of the second chunk is in progress, the chunk before it had
\* three pairs, and one of them failed.
C28_Witness ==
    /\ Fetching("a")
    /\ inv["a"].i = max_concurrent_requests
    /\ inv["a"].j = 2
    /\ Len(inv["a"].unique) = HardLimit
    /\ Len(inv["a"].results) = 2

(***************************************************************************)
(* compare_prices: the cache read, the refresh decision, the refresh by the *)
(* acquisition gate and the price store, the re-read and the comparison.    *)
(*                                                                          *)
(* compare_prices has no suspension point outside the fetches and sleeps of *)
(* the gate: the database calls are synchronous.  A step of the model runs  *)
(* from one suspension point to the next.                                   *)
(***************************************************************************)
\* The names compare_prices is asked for, and the stamps of the gate for them.
CompareNames == {"milk", "whole milk", "eggs"}
CompareKeys == CompareNames \X StoreNames

\* The words of a name or title, lower-cased.
Words(name) ==
    CASE name = "milk" -> <<"milk">>
      [] name = "whole milk" -> <<"whole", "milk">>
      [] name = "eggs" -> <<"eggs">>
      [] name = "Kroger Milk" -> <<"kroger", "milk">>
      [] name = "Kroger Eggs" -> <<"kroger", "eggs">>
      [] name = "Fresh Milk" -> <<"fresh", "milk">>
      [] name = "Fresh Whole Milk" -> <<"fresh", "whole", "milk">>
      [] name = "Fresh Eggs" -> <<"fresh", "eggs">>

\* needle in haystack, on the words of the two.
Contains(haystack, needle) ==
    \E o \in 0..(Len(haystack) - Len(needle)) :
        SubSeq(haystack, o + 1, o + Len(needle)) = needle

\* PriceData.product_name.ilike(f"%{product_name}%")
ILike(stored_name, product_name) == Contains(Words(stored_name), Words(product_name))

\* KrogerScraper.scrape_product: the first item of mock_prices found in the
\* lower-cased search term names the product, f"Kroger {item_name.title()}".
\* Of the ten items of mock_prices the model keeps the first three; the price
\* is the item's, without the random variation.
mock_prices == <<[item |-> "milk", price |-> 349, title |-> "Kroger Milk"],
                 [item |-> "bread", price |-> 229, title |-> "Kroger Bread"],
                 [item |-> "eggs", price |-> 299, title |-> "Kroger Eggs"]>>

KrogerScrape(product_name) ==
    LET hits == {k \in 1..Len(mock_prices) :
                    Contains(Words(Lower(product_name)), <<mock_prices[k].item>>)}
    IN  IF hits = {} THEN Absent
        ELSE LET best_match == mock_prices[CHOOSE k \in hits : \A j \in hits : k <= j]
             IN  Some([store_name |-> "kroger", product_name |-> best_match.title,
                       price |-> best_match.price, unit |-> "each",
                       availability |-> TRUE, source_url |-> "kroger"])

\* WalmartScraper.scrape_product, TargetScraper.scrape_product: the title and
\* the price of the first result of the site's search that has both, None
\* when the site lists none.  In the model a site that lists the product
\* titles it with the search term.
ListedTitle(product_name) ==
    CASE product_name = "milk" -> "Fresh Milk"
      [] product_name = "whole milk" -> "Fresh Whole Milk"
      [] product_name = "eggs" -> "Fresh Eggs"

ListedPrice(store_name) == IF store_name = "walmart" THEN 300 ELSE 250

SiteScrape(store_name, product_name, listed) ==
    IF listed
      THEN Some([store_name |-> store_name, product_name |-> ListedTitle(product_name),
                 price |-> ListedPrice(store_name), unit |-> "each",
                 availability |-> TRUE, source_url |-> store_name])
      ELSE Absent

\* scraper.scrape_product(product_name) of the store, when it returns: the
\* dict, or Absent for None.
ScrapeProduct(store_name, product_name, sites) ==
    IF store_name = "kroger" THEN KrogerScrape(product_name)
    ELSE SiteScrape(store_name, product_name, sites[store_name])

\* The dict _process_batch appended for a pair, seen when the results are
\* saved: scraped_at is the time the fetch returned, the stamp of the pair.
ResultOf(pair, sites, cache, current_time) ==
    LET scraped == Get(ScrapeProduct(pair[2], pair[1], sites))
    IN  [f \in {"age"} \cup DOMAIN scraped |->
            IF f = "age" THEN current_time - cache[RequestKey(pair)] ELSE scraped[f]]

PriceResultsOf(results, sites, cache, current_time) ==
    [k \in 1..Len(results) |-> ResultOf(results[k], sites, cache, current_time)]

\* A read that takes the rows of any age.
CachedPricesOfAnyAge(product_name, stores, table, current_time) ==
    LET Keep(row) == ILike(row.product_name, product_name) /\ row.availability = TRUE
    IN  SelectSeq(table, Keep)

\* _get_cached_prices: the rows of the product (by substring), available,
\* inside the freshness window, of the stores asked for if any.
CachedPrices(product_name, stores, table, current_time) ==
    LET InStores(row) ==
            \/ stores = None
            \/ \E k \in 1..Len(stores) : stores[k] = row.store_name
        Keep(row) == /\ ILike(row.product_name, product_name)
                     /\ row.availability = TRUE
                     /\ InWindow(row, current_time)
                     /\ InStores(row)
    IN  SelectSeq(table, Keep)

\* _needs_price_refresh
NeedsPriceRefresh(existing_prices, current_time) ==
    IF existing_prices = <<>> THEN TRUE
    ELSE LET recent_stores ==
                 {existing_prices[k].store_name :
                     k \in {j \in 1..Len(existing_prices) :
                               existing_prices[j].scraped_at > current_time - FreshnessWindow}}
         IN  Cardinality(recent_stores) < 2

\* The rows as the comparison engine of the model takes them: the age in
\* whole hours.
EngineRows(rows, current_time) ==
    [k \in 1..Len(rows) |->
        [store_name |-> rows[k].store_name, price |-> rows[k].price,
         age |-> (current_time - rows[k].scraped_at) \div 3600]]

\* The calls of compare_prices the model makes: product_names and stores
\* (None = no store asked for); force_refresh is chosen with the call.
CompareInputs ==
    { [product_names |-> <<"milk">>, stores |-> None],
      [product_names |-> <<"whole milk">>, stores |-> None],
      [product_names |-> <<"eggs">>, stores |-> <<"kroger">>],
      [product_names |-> <<"milk", "eggs">>, stores |-> <<"walmart", "kroger">>],
      [product_names |-> <<"milk", "milk">>, stores |-> <<"kroger">>] }

\* A row of the table as the model starts.
StoredRow(title, store_name, price, availability, scraped_at) ==
    [product_name |-> title, store_name |-> store_name, price |-> price,
     unit |-> "each", availability |-> availability, source_url |-> store_name,
     scraped_at |-> scraped_at]

\* The tables the model starts from, at time 0: empty; one store fresh; two
\* stores fresh; one store fresh and available and one fresh and
\* unavailable; two stores out of the freshness window.
InitialTables ==
    { <<>>,
      <<StoredRow("Kroger Milk", "kroger", 349, TRUE, -100)>>,
      <<StoredRow("Fresh Milk", "walmart", 300, TRUE, -100),
        StoredRow("Kroger Milk", "kroger", 349, TRUE, -7300)>>,
      <<StoredRow("Kroger Milk", "kroger", 349, TRUE, -100),
        StoredRow("Fresh Milk", "target", 250, FALSE, -100)>>,
      <<StoredRow("Fresh Milk", "walmart", 300, TRUE, -21600),
        StoredRow("Kroger Milk", "kroger", 349, TRUE, -30000)>> }

\* The product compare_prices is at.
CurName == cp.product_names[cp.k]

\* What the processing of one entry of product_names did.
NewEntry(name) ==
    [name |-> name, failed |-> "none", first_stores |-> {}, need_refresh |-> FALSE,
     events |-> <<>>, fetched |-> 0, written |-> 0, final_rows |-> 0, added |-> FALSE]

\* The loop of compare_prices goes on to the next product, or the call
\* returns comparisons.
Complete(entry, comparisons) ==
    LET trace == Append(cp.trace, entry)
    IN  IF cp.k < Len(cp.product_names)
          THEN /\ cp' = [cp EXCEPT !.pc = "read", !.k = cp.k + 1,
                                   !.comparisons = comparisons, !.trace = trace,
                                   !.cur = NewEntry(cp.product_names[cp.k + 1])]
               /\ returned' = returned
          ELSE /\ cp' = [pc |-> "idle"]
               /\ returned' = Append(returned,
                                 [product_names |-> cp.product_names,
                                  stores |-> cp.stores,
                                  force_refresh |-> cp.force_refresh,
                                  result |-> comparisons, trace |-> trace])

\* An exception that leaves compare_prices: the call ends there.
FailAborting(entry, what) ==
    /\ cp' = [pc |-> "idle"]
    /\ returned' = Append(returned,
                      [product_names |-> cp.product_names, stores |-> cp.stores,
                       force_refresh |-> cp.force_refresh, result |-> cp.comparisons,
                       trace |-> Append(cp.trace, [entry EXCEPT !.failed = what])])

\* An exception leaves _compare_single_product: compare_prices logs it and
\* continues with the next product.
Fail(entry, what) == Complete([entry EXCEPT !.failed = what], cp.comparisons)

\* The end of _compare_single_product on the rows last read, and
\* 'if comparison: comparisons[product_name] = comparison'.
Settle(entry, rows, fail) ==
    LET e == [entry EXCEPT !.final_rows = Len(rows)]
    IN  IF rows = <<>> THEN Complete(e, cp.comparisons)
        ELSE IF fail = "build" THEN Fail(e, "build")
        ELSE Complete([e EXCEPT !.added = TRUE],
                      Put(cp.comparisons, entry.name,
                          Get(CreatePriceComparison(entry.name, EngineRows(rows, now)))))

\* compare_prices(product_names, stores, force_refresh) is called.
CompareCall(input, force_refresh) ==
    /\ cp.pc = "idle"
    /\ compare_calls < MaxCompareCalls
    /\ compare_calls' = compare_calls + 1
    /\ cp' = [pc |-> "read", product_names |-> input.product_names,
              stores |-> input.stores, force_refresh |-> force_refresh, k |-> 1,
              comparisons |-> EmptyDict, trace |-> <<>>, calls0 |-> 0,
              cur |-> NewEntry(input.product_names[1])]
    /\ UNCHANGED <<gateVars, cmpVars, optVars, dealVars, saveVars, site, returned>>

\* The first _get_cached_prices of a product and the decision to refresh.
\* fail = "read": the read raises; fail = "build": _create_price_comparison
\* raises.
FirstRead(fail) ==
    /\ cp.pc = "read"
    /\ fail \in {"none", "read", "build"}
    /\ LET rows == CachedPrices(CurName, cp.stores, price_table, now)
           need_refresh == cp.force_refresh \/ NeedsPriceRefresh(rows, now)
           entry == [cp.cur EXCEPT !.events = <<"read">>,
                                   !.first_stores = {rows[k].store_name : k \in 1..Len(rows)},
                                   !.need_refresh = need_refresh]
       IN  IF fail = "read" THEN Fail([cp.cur EXCEPT !.events = <<"read">>], "read")
           ELSE IF need_refresh
             THEN /\ fail = "none"
                  /\ cp' = [cp EXCEPT !.pc = "refresh", !.calls0 = calls, !.cur = entry]
                  /\ returned' = returned
             ELSE /\ fail = "build" => rows # <<>>
                  /\ Settle(entry, rows, fail)
    /\ UNCHANGED <<gateVars, cmpVars, optVars, dealVars, saveVars, site, compare_calls>>

\* _refresh_price_data calls scraper.scrape_product_prices([product_name], stores).
RefreshStart ==
    /\ cp.pc = "refresh"
    /\ calls = cp.calls0
    /\ Start("a", [product_names |-> <<CurName>>,
                   stores |-> IF cp.stores = None THEN DefaultStores ELSE cp.stores])

\* The gate call made for the product has one more step to take.
LastStep(how) ==
    CASE how = "sleep" -> /\ inv["a"].pc = "sleep"
                          /\ Advance(inv["a"], active_requests, now).inv.pc = "idle"
      [] how = "raise" -> /\ inv["a"].pc = "fetch"
                          /\ Advance(inv["a"], active_requests \ {CurKey(inv["a"])},
                                     now).inv.pc = "idle"
      [] how = "empty" -> inv["a"].pc = "idle"

\* The steps of the gate call before its last.
RefreshFetchReturn ==
    /\ inv["a"].pc = "fetch"
    /\ FetchReturn("a", ScrapeProduct(CurPair(inv["a"])[2], CurPair(inv["a"])[1], site) # Absent)

RefreshFetchRaise ==
    /\ inv["a"].pc = "fetch"
    /\ ~LastStep("raise")
    /\ FetchRaise("a")

RefreshSleepDone ==
    /\ inv["a"].pc = "sleep"
    /\ ~LastStep("sleep")
    /\ SleepDone("a")

\* scrape_product_prices returns to _refresh_price_data after its last step
\* (how: the last sleep ends, the last fetch raises, or the call had no pair
\* left and returned at once); 'if price_results:' save_price_data writes
\* them; _compare_single_product reads the rows again and ends.
\* fail = "refresh": save_price_data raises before its try (get_session), and
\* _refresh_price_data logs it; fail = "save": the commit raises and is rolled
\* back; fail = "reread": the second _get_cached_prices raises;
\* fail = "build": _create_price_comparison raises.
RefreshReturns(how, fail) ==
    /\ cp.pc = "refresh"
    /\ calls > cp.calls0
    /\ how \in {"sleep", "raise", "empty"}
    /\ fail \in {"none", "refresh", "save", "reread", "build"}
    /\ LastStep(how)
    /\ LET active == IF how = "raise" THEN active_requests \ {CurKey(inv["a"])}
                     ELSE active_requests
           price_results == PriceResultsOf(inv["a"].results, site, request_cache, now)
           saves == price_results # <<>> /\ fail # "refresh"
           out == SaveOutcome(price_results,
                              IF fail = "save" THEN Len(price_results) + 1 ELSE 0,
                              price_table, request_cache, now)
           table == IF saves THEN out.table ELSE price_table
           rows == CachedPrices(CurName, cp.stores, table, now)
           entry == [cp.cur EXCEPT
                        !.events = @ \o <<"gate">>
                                     \o [k \in 1..Len(price_results) |-> "fetch"]
                                     \o (IF saves THEN <<"save">> ELSE <<>>)
                                     \o <<"reread">>,
                        !.fetched = Len(price_results),
                        !.written = IF saves THEN out.entry.inserted + out.entry.updated
                                    ELSE 0,
                        !.failed = IF fail \in {"refresh", "save"} THEN fail ELSE "none"]
       IN  /\ fail \in {"refresh", "save"} => price_results # <<>>
           /\ active_requests' = IF how = "empty" THEN active_requests
                                 ELSE Advance(inv["a"], active, now).active
           /\ inv' = [inv EXCEPT !["a"] = IdleInv]
           /\ price_table' = table
           /\ request_cache' = IF saves THEN out.cache ELSE request_cache
           /\ save_log' = IF saves THEN Append(save_log, out.entry) ELSE save_log
           /\ IF fail = "reread" THEN Fail(entry, "reread")
              ELSE /\ fail = "build" => rows # <<>>
                   /\ Settle(entry, rows, fail)
    /\ UNCHANGED <<now, ticks, calls, recent_skips, survive_log, last_survived, resurvive_log>>
    /\ UNCHANGED <<cmpVars, optVars, dealVars, site, compare_calls>>

\* The clock advances between two calls of compare_prices.
CompareTick(d) ==
    /\ cp.pc = "idle"
    /\ Tick(d)

InitCompare ==
    /\ active_requests = {}
    /\ request_cache = [k \in CompareKeys |-> NoStamp]
    /\ now = 0
    /\ ticks = 0
    /\ calls = 0
    /\ inv = [s \in Slots |-> IdleInv]
    /\ recent_skips = {}
    /\ survive_log = {}
    /\ last_survived = [k \in CompareKeys |-> NoStamp]
    /\ resurvive_log = {}
    /\ CmpIdle
    /\ OptIdle
    /\ DealIdle
    /\ price_table \in InitialTables
    /\ save_log = <<>>
    /\ site \in [{"walmart", "target"} -> BOOLEAN]
    /\ cp = [pc |-> "idle"]
    /\ compare_calls = 0
    /\ returned = <<>>

NextCompare ==
    \/ \E input \in CompareInputs, force_refresh \in BOOLEAN : CompareCall(input, force_refresh)
    \/ \E fail \in {"none", "read", "build"} : FirstRead(fail)
    \/ RefreshStart
    \/ RefreshFetchReturn
    \/ RefreshFetchRaise
    \/ RefreshSleepDone
    \/ \E how \in {"sleep", "raise", "empty"},
          fail \in {"none", "refresh", "save", "reread", "build"} : RefreshReturns(how, fail)
    \/ \E d \in TickSteps : CompareTick(d)

SpecCompare == InitCompare /\ [][NextCompare]_vars

(***************************************************************************)
(* Properties of compare_prices                                             *)
(***************************************************************************)
\* The calls that have returned, the entries of a call's product_names as
\* processed, and the mapping compare_prices holds (or has just returned).
Returns == {returned[n] : n \in 1..Len(returned)}
Entries(r) == {r.trace[k] : k \in 1..Len(r.trace)}
Mapping == IF cp.pc = "idle"
             THEN (IF returned = <<>> THEN EmptyDict ELSE returned[Len(returned)].result)
             ELSE cp.comparisons

\* The step ends the processing of the product compare_prices is at.
EntryEnds == cp.pc \in {"read", "refresh"} /\ (cp'.pc = "idle" \/ cp'.k # cp.k)

\* The table holds an available observation of the product, in any store,
\* less than 6 hours old.
HoldsFreshObservation(table, current_time, name) ==
    \E k \in 1..Len(table) :
        /\ ILike(table[k].product_name, name)
        /\ table[k].availability
        /\ current_time - table[k].scraped_at < FreshnessWindow
HasFreshObservation(name) == HoldsFreshObservation(price_table, now, name)

\* C21: a product that has no fresh (within 6 hours), available observation
\* in any store once its refresh attempt is over gets no key in the mapping
\* compare_prices returns, and every key of the mapping is a requested
\* product name whose comparison has stores_compared >= 1.
C21_NoFreshObservationNoKey ==
    /\ [](\A r \in Returns : \A name \in DOMAIN r.result :
             /\ \E k \in 1..Len(r.product_names) : r.product_names[k] = name
             /\ r.result[name].product_name = name
             /\ r.result[name].stores_compared >= 1)
    /\ [][(EntryEnds /\ ~HoldsFreshObservation(price_table', now', CurName))
            => Mapping' = Mapping]_vars

\* A call has returned in which a product was refreshed, no observation of
\* it was found afterwards, and it has no key, while another product has one.
C21_Witness ==
    \E r \in Returns : \E e \in Entries(r) :
        /\ "gate" \in {e.events[k] : k \in 1..Len(e.events)}
        /\ e.failed = "none"
        /\ e.final_rows = 0
        /\ e.name \notin DOMAIN r.result
        /\ DOMAIN r.result # {}
        /\ ~HasFreshObservation(e.name)

\* C22 as stated: an exception raised while one product is processed (a read
\* of the store, the refresh, the building of the comparison) does not reach
\* the caller: compare_prices returns, and the failed product is omitted
\* from the mapping.
C22_FailedProductOmitted ==
    \A r \in Returns :
        /\ Len(r.trace) = Len(r.product_names)
        /\ \A e \in Entries(r) : e.failed # "none" => e.name \notin DOMAIN r.result

\* The keys the entries of a call added to its mapping.
AddedNames(r) == {e.name : e \in {x \in Entries(r) : x.added}}

\* C22 as amended: no exception reaches the caller, and every entry of
\* product_names is processed in turn whatever happened to the entries
\* before it.  An entry whose store read or comparison raised adds no key to
\* the mapping.  An exception raised by the refresh is caught inside the
\* refresh; the entry is then compared on the rows the re-read returns, and
\* adds its key exactly when there are any.  The keys of the mapping are the
\* keys the entries added.
C22_FailuresStayInsideTheirEntry ==
    \A r \in Returns :
        /\ Len(r.trace) = Len(r.product_names)
        /\ \A k \in 1..Len(r.trace) : r.trace[k].name = r.product_names[k]
        /\ \A e \in Entries(r) :
              /\ e.failed \in {"read", "reread", "build"} => ~e.added
              /\ e.failed \in {"none", "refresh", "save"} => e.added = (e.final_rows > 0)
        /\ DOMAIN r.result = AddedNames(r)

\* A call of two products has returned: the refresh of one failed and it has
\* a key all the same, a read of the other raised and it has none.
C22_Witness ==
    \E r \in Returns : \E e1, e2 \in Entries(r) :
        /\ e1.failed \in {"refresh", "save"}
        /\ e1.fetched > 0
        /\ e1.name \in DOMAIN r.result
        /\ e2.failed \in {"read", "reread", "build"}
        /\ e2.name \notin DOMAIN r.result

\* The number of times an event is in the events of an entry, and the number
\* of times the gate was invoked for a product in a call.
Count(events, what) == Cardinality({k \in 1..Len(events) : events[k] = what})
GateCalls(r, name) ==
    SumSeq([k \in 1..Len(r.trace) |->
               IF r.trace[k].name = name THEN Count(r.trace[k].events, "gate") ELSE 0])

\* C26: within a call of compare_prices the gate is invoked for a product
\* exactly when force_refresh is set or fewer than 2 distinct stores have a
\* fresh cached observation of it, at most once per product, after the first
\* cache read and before exactly one re-read; when it is not invoked, nothing
\* is fetched or written for the product.
C26_GateOncePerProductWhenNeeded ==
    \A r \in Returns :
        /\ \A e \in Entries(r) :
              e.failed # "read" =>
                 /\ (Count(e.events, "gate") > 0) =
                        (r.force_refresh \/ Cardinality(e.first_stores) < 2)
                 /\ Count(e.events, "gate") > 0 =>
                        /\ e.events[1] = "read"
                        /\ e.events[2] = "gate"
                        /\ e.events[Len(e.events)] = "reread"
                        /\ Count(e.events, "reread") = 1
                 /\ Count(e.events, "gate") = 0 =>
                        /\ e.fetched = 0
                        /\ e.written = 0
                        /\ Count(e.events, "reread") = 0
        /\ \A name \in CompareNames : GateCalls(r, name) <= 1

\* C30: when the refresh of a product fetches at least one available
\* observation and saves it, and nothing raises, the product has a key in
\* the mapping of the same call.
C30_RefreshedProductIsInResult ==
    \A r \in Returns : \A e \in Entries(r) :
        (e.failed = "none" /\ e.fetched >= 1 /\ e.written >= 1) =>
            e.name \in DOMAIN r.result

(***************************************************************************)
(* The request cache under the gate and the price store: calls of           *)
(* scrape_product_prices stamp it, save_price_data cleans it up.            *)
(***************************************************************************)
\* The price_results the model saves: none, or one observation.
CleanupResults ==
    { <<>>,
      <<[product_name |-> "milk", store_name |-> "walmart", price |-> 100,
         unit |-> "gallon", availability |-> TRUE, source_url |-> "a", age |-> 0]>> }

\* The clock steps: past the recency window, past the hour of the cleanup,
\* a day.
CleanupTickSteps == {601, 3601, 86400}

NextCleanup ==
    \/ \E req \in Requests : BatchStart(req)
    \/ \E found \in BOOLEAN : FetchReturn("a", found)
    \/ FetchRaise("a")
    \/ SleepDone("a")
    \/ \E d \in CleanupTickSteps : Tick(d)
    \/ \E price_results \in CleanupResults, failure \in 0..2 : Save(price_results, failure)

SpecCleanup == Init /\ [][NextCleanup]_vars

\* The step is a call of save_price_data that committed: _cleanup_old_cache
\* has run.
CleanupRuns ==
    /\ Len(save_log') = Len(save_log) + 1
    /\ save_log'[Len(save_log')].committed
    /\ save_log'[Len(save_log')].list # <<>>

\* C25: the cleanup removes from the request cache exactly the entries whose
\* stamp is more than 1 hour old, whatever their age, and leaves every entry
\* stamped within the last hour as it is.
C25_CleanupRemovesEntriesOlderThanAnHour ==
    [][CleanupRuns =>
          \A k \in DOMAIN request_cache :
              request_cache'[k] =
                  IF request_cache[k] # NoStamp /\ now - request_cache[k] > CacheExpiry
                    THEN NoStamp ELSE request_cache[k]]_vars

====
